---- MODULE Spec2Model ----
(***************************************************************************)
(* Model of jquery.toc.js: the toc plugin gives every heading an id (the   *)
(* attr("id") callback with generateUniqueId) and then builds the nested   *)
(* list of links with an upside-down stack of list elements.               *)
(*                                                                         *)
(* Strings are sequences of one-character strings, so that the regular     *)
(* expression replacements, the case conversions and the concatenations    *)
(* of the source are computed character by character.                      *)
(***************************************************************************)
EXTENDS Integers, Sequences, FiniteSets, TLC

\* ------------------------------------------------------------------ bounds
\* Most headings of a document in the specification with a second invocation.
MaxRerun == 2
\* Most headings of a document in the id-assignment specification.
MaxHeadings == 3
\* Most headings of a document in the outline specification.
MaxOutline == 5
\* Number of heading selectors (levels 0 .. NumLevels - 1).
NumLevels == 4

\* ------------------------------------------------------- character classes
LowerChars == {"a", "b"}
UpperChars == {"A", "B"}
DigitChars == {"0", "1", "2", "3", "4", "5", "6", "7", "8", "9"}
\* \w of a JavaScript regular expression: [A-Za-z0-9_]
WordChars == LowerChars \cup UpperChars \cup DigitChars \cup {"_"}
\* \s of a JavaScript regular expression (the space and the tab stand for it)
SpaceChars == {" ", "\t"}

toLowerCaseChar(c) ==
    CASE c = "A" -> "a"
      [] c = "B" -> "b"
      [] OTHER -> c

toUpperCaseChar(c) ==
    CASE c = "a" -> "A"
      [] c = "b" -> "B"
      [] OTHER -> c

toLowerCase(s) == [k \in 1..Len(s) |-> toLowerCaseChar(s[k])]

\* text.replace(/\s+/g, ' '): every maximal run of whitespace becomes one space
RECURSIVE CollapseSpaces(_)
CollapseSpaces(s) ==
    IF s = << >> THEN << >>
    ELSE IF Head(s) \in SpaceChars
         THEN IF Len(s) > 1 /\ s[2] \in SpaceChars
              THEN CollapseSpaces(Tail(s))
              ELSE <<" ">> \o CollapseSpaces(Tail(s))
         ELSE <<Head(s)>> \o CollapseSpaces(Tail(s))

\* .replace(/[^\w\-\s]/g, ''): drop what is no word character, hyphen or space
FilterChars(s) == SelectSeq(s, LAMBDA c : c \in WordChars \cup {"-"} \cup SpaceChars)

\* text.replace(/\s/g, spaceReplacement)
RECURSIVE ReplaceSpaces(_, _)
ReplaceSpaces(s, rep) ==
    IF s = << >> THEN << >>
    ELSE (IF Head(s) \in SpaceChars THEN rep ELSE <<Head(s)>>)
             \o ReplaceSpaces(Tail(s), rep)

\* str.split(' '): the pieces between the spaces, empty pieces included
RECURSIVE SplitOnSpace(_, _)
SplitOnSpace(s, word) ==
    IF s = << >> THEN <<word>>
    ELSE IF Head(s) = " "
         THEN <<word>> \o SplitOnSpace(Tail(s), << >>)
         ELSE SplitOnSpace(Tail(s), Append(word, Head(s)))

\* Variant of CamelWord: the rest of a later word keeps its case.
CamelWordKeepsRest(word, index) ==
    IF index = 0 THEN toLowerCase(word)
    ELSE IF word = << >> THEN << >>
         ELSE <<toUpperCaseChar(Head(word))>> \o Tail(word)

\* the callback of map in toCamelCase
CamelWord(word, index) ==
    IF index = 0 THEN toLowerCase(word)
    ELSE IF word = << >> THEN << >>
         ELSE <<toUpperCaseChar(Head(word))>> \o toLowerCase(Tail(word))

RECURSIVE JoinWords(_, _)
JoinWords(words, index) ==
    IF words = << >> THEN << >>
    ELSE CamelWord(Head(words), index) \o JoinWords(Tail(words), index + 1)

toCamelCase(str) == JoinWords(SplitOnSpace(str, << >>), 0)

\* the decimal digits of a number, as string concatenation writes them
DigitChar(d) ==
    CASE d = 0 -> "0" [] d = 1 -> "1" [] d = 2 -> "2" [] d = 3 -> "3"
      [] d = 4 -> "4" [] d = 5 -> "5" [] d = 6 -> "6" [] d = 7 -> "7"
      [] d = 8 -> "8" [] d = 9 -> "9"

RECURSIVE NumToStr(_)
NumToStr(n) ==
    IF n < 10 THEN <<DigitChar(n)>>
    ELSE NumToStr(n \div 10) \o <<DigitChar(n % 10)>>

\* ------------------------------------------------------------------- state
VARIABLES
    headings,      \* the headings $(content).find(headings) returns, in document
                   \* order: [text, id, level], id << >> when there is none
    otherIds,      \* the ids of the other elements of the document
    idFormat,      \* thisOptions.idFormat, as the switch of line 95 reads it
    options,       \* the options argument of toc; a field is Undefined when the
                   \* argument or its property is missing
    data,          \* root.data(): the data attributes of the list element
    thisOptions,   \* the options in effect (lines 39-51)
    invocation,    \* "first" or "second" invocation of toc on the document
    existingId,    \* the id of each heading before the run (history)
    pc,            \* "ids": in .attr("id", fn); "outline": in .each(fn); "done"
    i,             \* index of the next heading of the running loop
    stack,         \* the upside-down stack of lists, stack[1] is the top
    currentLevel,  \* level of the heading processed last
    lists          \* the list elements: lists[1] is root; [parent, items], parent
                   \* the item a nested list was appended to, items its <li>s

vars == <<headings, otherIds, idFormat, options, data, thisOptions, invocation,
          existingId, pc, i, stack, currentLevel, lists>>

\* What one invocation leaves alone once it has read its options.
config == <<idFormat, options, data, thisOptions, invocation>>

\* --------------------------------------------------------------- the options
\* JavaScript values: <<type, text>>
Undefined == <<"undefined", "">>
Str(x) == <<"string", x>>
NumberZero == <<"number", "0">>

\* v as the left operand of || (the values that occur: strings, 0, undefined)
Truthy(v) == v \notin {Undefined, Str(""), NumberZero}

\* lines 46-48: data.x || undefined
OrUndefined(v) == IF Truthy(v) THEN v ELSE Undefined

\* lines 40-44
Defaults == [content |-> Str("body"), headings |-> Str("h1,h2,h3"), idFormat |-> Str("")]

\* $.extend(target, obj): the properties of obj that are not undefined are copied
Extend(target, obj) ==
    [key \in DOMAIN target |-> IF obj[key] # Undefined THEN obj[key] ELSE target[key]]

\* Variant of ThisOptions: the data attributes are applied after the plugin parameters.
ThisOptionsDataLast(d, opts) ==
    Extend(Extend(Defaults, opts),
           [content |-> OrUndefined(d.toc),
            headings |-> OrUndefined(d.tocHeadings),
            idFormat |-> OrUndefined(d.idFormat)])

\* lines 39-51: thisOptions = $.extend(defaults, data attributes, options)
ThisOptions(d, opts) ==
    Extend(Extend(Defaults,
                  [content |-> OrUndefined(d.toc),
                   headings |-> OrUndefined(d.tocHeadings),
                   idFormat |-> OrUndefined(d.idFormat)]),
           opts)

Min(a, b) == IF a < b THEN a ELSE b
Max(a, b) == IF a > b THEN a ELSE b

\* ---------------------------------------------------------- id generation
\* Variant of DocIds: a lookup that sees the headings only.
DocIdsNoOthers(hs, others) == {hs[k].id : k \in 1..Len(hs)} \ {<< >>}

\* The ids document.getElementById can find: an empty id attribute gives the
\* element no id.
DocIds(hs, others) == (others \cup {hs[k].id : k \in 1..Len(hs)}) \ {<< >>}

\* document.getElementById(id) !== null
getElementById(id, ids) == id # << >> /\ id \in ids

\* lines 82-87: the placeholder for an empty text, then the sanitising
Sanitise(text) ==
    LET t == IF Len(text) = 0 THEN <<"?">> ELSE text
    IN  FilterChars(CollapseSpaces(t))

\* lines 95-107: the switch on thisOptions.idFormat
SpaceReplacement(format) ==
    CASE format = "kebab-case" -> <<"-">>
      [] format = "camelCase" -> << >>
      [] OTHER -> <<"_">>

BaseId(text, format) ==
    CASE format = "kebab-case" -> toLowerCase(ReplaceSpaces(text, <<"-">>))
      [] format = "camelCase" -> toCamelCase(text)
      [] OTHER -> ReplaceSpaces(text, <<"_">>)

\* lines 109-113: while (getElementById(baseId + suffix) !== null) ...
RECURSIVE SuffixLoop(_, _, _, _, _)
SuffixLoop(baseId, spaceReplacement, suffix, count, ids) ==
    IF getElementById(baseId \o suffix, ids)
    THEN SuffixLoop(baseId, spaceReplacement,
                    spaceReplacement \o NumToStr(count), count + 1, ids)
    ELSE baseId \o suffix

generateUniqueId(text, format, ids) ==
    LET clean == Sanitise(text)
    IN  SuffixLoop(BaseId(clean, format), SpaceReplacement(format), << >>, 1, ids)

\* Variant of IdCallback: an id is generated for every heading.
IdCallbackAlways(attr, text, format, ids) == generateUniqueId(text, format, ids)

\* line 116: return attr || generateUniqueId($(this).text())
IdCallback(attr, text, format, ids) ==
    IF attr # << >> THEN attr ELSE generateUniqueId(text, format, ids)

\* ------------------------------------------------------------ the outline
\* stack[0] of the source; 0 stands for undefined
Top(s) == IF s = << >> THEN 0 ELSE s[1]

\* stack[0].children("li:last")[0]; 0 stands for undefined
LastItem(ls, l) == IF ls[l].items = << >> THEN 0 ELSE ls[l].items[Len(ls[l].items)]

\* Variant of SpliceCount: the count is not limited by the height of the stack.
SpliceCountUnclamped(cur, level, len) == cur - level

\* Variant of SpliceCount: two elements of the stack are preserved instead of one.
SpliceCountKeepsTwo(cur, level, len) == Min(cur - level, Max(len - 2, 0))

\* Variant of SpliceCount: one list fewer than the difference of the levels.
SpliceCountOneLess(cur, level, len) == Min(cur - level - 1, Max(len - 1, 0))

\* line 137: Math.min(currentLevel - level, Math.max(stack.length - 1, 0))
SpliceCount(cur, level, len) == Min(cur - level, Max(len - 1, 0))

\* Variant of Splice: any removal cuts the stack down to its bottom entry.
SpliceToBottom(s, n) == IF n > 0 /\ s # << >> THEN <<s[Len(s)]>> ELSE s

\* stack.splice(0, n)
Splice(s, n) == SubSeq(s, Min(Max(n, 0), Len(s)) + 1, Len(s))

\* Variant of Descends: a heading of the same level starts a nested list too.
DescendsOrSame(level, cur) == level >= cur

\* line 123: if (level > currentLevel)
Descends(level, cur) == level > cur

\* Variant of PushesList: a nested list is started on every descending step.
PushesListAlways(level, cur, s, ls) == Descends(level, cur)

\* lines 123-132: a nested list is started when the top list has an item
PushesList(level, cur, s, ls) == Descends(level, cur) /\ LastItem(ls, Top(s)) # 0

StackAfter(level, cur, s, ls) ==
    IF Descends(level, cur)
    THEN IF PushesList(level, cur, s, ls) THEN <<Len(ls) + 1>> \o s ELSE s
    ELSE Splice(s, SpliceCount(cur, level, Len(s)))

ListsAfter(level, cur, s, ls) ==
    IF PushesList(level, cur, s, ls)
    THEN Append(ls, [parent |-> LastItem(ls, Top(s)), items |-> << >>])
    ELSE ls

\* Variant of AppendItem: the item becomes the first child of the list.
PrependItem(ls, l, item) ==
    IF l = 0 THEN ls ELSE [ls EXCEPT ![l].items = <<item>> \o @]

\* lines 141-143: $("<li/>").appendTo(stack[0]); appending to undefined adds nothing
AppendItem(ls, l, item) ==
    IF l = 0 THEN ls ELSE [ls EXCEPT ![l].items = Append(@, item)]

\* ------------------------------------------------------------ the documents
\* Heading texts: empty, whitespace only, only filtered characters, plain,
\* two words in mixed case, a text whose id looks like a suffixed id, two
\* words with capitals at the start and at the end.
Texts ==
    { << >>,
      <<"\t", " ">>,
      <<"!">>,
      <<"a">>,
      <<"A", " ", "b">>,
      <<"a", " ", "1">>,
      <<"A", "b", " ", "b", "A">> }

\* Ids found in the document before the run.
PreIds == { <<"a">>, <<"a", "_", "1">> }

\* A heading without an id and some text, or with an id (and the text "a").
HeadingChoices ==
    {[text |-> t, id |-> << >>] : t \in Texts}
        \cup {[text |-> <<"a">>, id |-> e] : e \in PreIds}

IdFormats == {"", "kebab-case", "camelCase", "snake_case"}

Levels == 0..(NumLevels - 1)

TypeOK ==
    /\ pc \in {"ids", "outline", "done", "error"}
    /\ i \in 1..(Len(headings) + 1)
    /\ currentLevel \in Levels
    /\ \A k \in 1..Len(headings) : headings[k].level \in Levels
    /\ Len(existingId) = Len(headings)

\* toc called without options, a list element without data attributes
NoOptions == [content |-> Undefined, headings |-> Undefined, idFormat |-> Undefined]
NoData == [toc |-> Undefined, tocHeadings |-> Undefined, idFormat |-> Undefined]

\* Plugin parameters: missing, empty, or a value.
OptionChoices ==
    [content : {Undefined, Str("#a")},
     headings : {Undefined, Str(""), Str("h1,h2")},
     idFormat : {Undefined, Str(""), Str("camelCase")}]

\* Data attributes as .data() reads them: missing, empty, "0" (read as the
\* number 0), or a value.
DataChoices ==
    [toc : {Undefined, Str(""), Str("#b")},
     tocHeadings : {Undefined, Str(""), NumberZero, Str("h2,h3")},
     idFormat : {Undefined, Str(""), Str("kebab-case")}]

\* lines 38-52: the options of the invocation
InitConfig(opts, ds) ==
    /\ options \in opts
    /\ data \in ds
    /\ thisOptions = ThisOptions(data, options)
    /\ idFormat = thisOptions.idFormat[2]
    /\ invocation = "first"

\* line 33-35: stack = [root], currentLevel = 0; the root list is empty
InitRun ==
    /\ existingId = [k \in 1..Len(headings) |-> headings[k].id]
    /\ pc = "ids"
    /\ i = 1
    /\ stack = <<1>>
    /\ currentLevel = 0
    /\ lists = <<[parent |-> 0, items |-> << >>]>>

\* Documents for the id assignment: every choice of texts and ids, any format,
\* the levels going round the selectors.
Init ==
    /\ \E n \in 0..MaxHeadings : \E f \in [1..n -> HeadingChoices] :
          headings = [k \in 1..n |->
                        [text |-> f[k].text, id |-> f[k].id,
                         level |-> (k - 1) % NumLevels]]
    /\ otherIds \in {{}, {<<"a">>}}
    /\ InitConfig({[NoOptions EXCEPT !.idFormat = Str(f)] : f \in IdFormats}, {NoData})
    /\ InitRun

\* Documents for the outline: every sequence of levels, headings named "a".
InitOutline ==
    /\ \E n \in 0..MaxOutline : \E f \in [1..n -> Levels] :
          headings = [k \in 1..n |-> [text |-> <<"a">>, id |-> << >>, level |-> f[k]]]
    /\ otherIds = {}
    /\ InitConfig({NoOptions}, {NoData})
    /\ InitRun

\* ---------------------------------------------------------------- actions
\* lines 55-116: one call of the .attr("id", fn) callback; jQuery sets the id of
\* the element before it calls the callback for the next one.
AssignId ==
    /\ pc = "ids"
    /\ i <= Len(headings)
    /\ headings' = [headings EXCEPT ![i].id =
                       IdCallback(headings[i].id, headings[i].text, idFormat,
                                  DocIds(headings, otherIds))]
    /\ i' = i + 1
    /\ UNCHANGED <<otherIds, config, existingId, pc, stack, currentLevel, lists>>

\* line 117: .attr() has visited every heading, .each() starts
StartOutline ==
    /\ pc = "ids"
    /\ i > Len(headings)
    /\ pc' = "outline"
    /\ i' = 1
    /\ UNCHANGED <<headings, otherIds, config, existingId, stack, currentLevel, lists>>

\* lines 117-146: one call of the .each() callback
ProcessHeading ==
    /\ pc = "outline"
    /\ i <= Len(headings)
    /\ LET level == headings[i].level IN
       IF Descends(level, currentLevel) /\ Top(stack) = 0
       THEN \* stack[0].children throws on undefined
            /\ pc' = "error"
            /\ UNCHANGED <<i, stack, currentLevel, lists>>
       ELSE /\ stack' = StackAfter(level, currentLevel, stack, lists)
            /\ lists' = AppendItem(ListsAfter(level, currentLevel, stack, lists),
                                   Top(stack'), i)
            /\ currentLevel' = level
            /\ i' = i + 1
            /\ pc' = pc
    /\ UNCHANGED <<headings, otherIds, config, existingId>>

\* line 146: .each() has visited every heading
Finish ==
    /\ pc = "outline"
    /\ i > Len(headings)
    /\ pc' = "done"
    /\ UNCHANGED <<headings, otherIds, config, existingId, i, stack, currentLevel, lists>>

Next == AssignId \/ StartOutline \/ ProcessHeading \/ Finish

Spec == Init /\ [][Next]_vars

SpecOutline == InitOutline /\ [][Next]_vars

\* Documents for the options: every choice of plugin parameters and data
\* attributes, at most one heading.
InitOptions ==
    /\ \E n \in 0..1 :
          headings = [k \in 1..n |-> [text |-> <<"A", " ", "b">>, id |-> << >>, level |-> 0]]
    /\ otherIds = {}
    /\ InitConfig(OptionChoices, DataChoices)
    /\ InitRun

SpecOptions == InitOptions /\ [][Next]_vars

\* lines 29-52, 159: toc runs again over the same document, for the same list
\* element (which keeps its items) or for another one (empty), with the
\* idFormat of that call or element.
InvokeAgain ==
    /\ pc = "done"
    /\ invocation = "first"
    /\ invocation' = "second"
    /\ options' \in {[NoOptions EXCEPT !.idFormat = Str(f)] : f \in IdFormats}
    /\ data' = NoData
    /\ thisOptions' = ThisOptions(data', options')
    /\ idFormat' = thisOptions'.idFormat[2]
    /\ existingId' = [k \in 1..Len(headings) |-> headings[k].id]
    /\ pc' = "ids"
    /\ i' = 1
    /\ stack' = <<1>>
    /\ currentLevel' = 0
    /\ lists' \in {lists, <<[parent |-> 0, items |-> << >>]>>}
    /\ UNCHANGED <<headings, otherIds>>

\* Documents for two invocations: every choice of texts and ids, any format.
InitRerun ==
    /\ \E n \in 0..MaxRerun : \E f \in [1..n -> HeadingChoices] :
          headings = [k \in 1..n |->
                        [text |-> f[k].text, id |-> f[k].id,
                         level |-> (k - 1) % NumLevels]]
    /\ otherIds = {}
    /\ InitConfig({[NoOptions EXCEPT !.idFormat = Str(f)] : f \in IdFormats}, {NoData})
    /\ InitRun

NextRerun == Next \/ InvokeAgain

SpecRerun == InitRerun /\ [][NextRerun]_vars

\* ================================================================== claims
\* The .attr("id", fn) callback has run for heading k.
IdAssigned(k) == pc # "ids" \/ k < i

\* The run generated the id of heading k (it had none before).
Generated(k) == existingId[k] = << >> /\ IdAssigned(k)

\* The ids of the document before the run.
PreExistingIds == (otherIds \cup {existingId[k] : k \in 1..Len(existingId)}) \ {<< >>}

\* C1: after a run no two headings carry equal identifiers. Stated for every
\* pair of headings of which at least one got its id from the run (two ids that
\* were both there before the run are passed through as they are, see C5).
C1_UniqueIds ==
    pc = "done" =>
        \A j, k \in 1..Len(headings) :
            (j # k /\ (Generated(j) \/ Generated(k)))
                => headings[j].id # headings[k].id

\* The text is empty, whitespace only, or empty after the character filtering.
DegenerateText(text) ==
    \/ text = << >>
    \/ \A p \in 1..Len(text) : text[p] \in SpaceChars
    \/ FilterChars(text) = << >>

\* C3: a heading without an id whose text is empty, whitespace only or empty
\* after filtering gets an id whose base is the placeholder "?", never the
\* empty string.
C3_PlaceholderBase ==
    \A k \in 1..Len(headings) :
        (Generated(k) /\ DegenerateText(headings[k].text))
            => (headings[k].id # << >> /\ Head(headings[k].id) = "?")

\* The registry when the id of heading k is generated: the ids of the document
\* before the run and every id generated for an earlier heading.
RegistryBefore(k) ==
    PreExistingIds \cup {headings[j].id : j \in {m \in 1..(k - 1) : Generated(m)}}

\* The first unused candidate in the order base, base+sep+"1", base+sep+"2", ...
FirstUnused(base, sep, registry) ==
    IF base \notin registry THEN base
    ELSE LET cand(n) == base \o sep \o NumToStr(n)
             n == CHOOSE m \in 1..(Cardinality(registry) + 1) :
                      /\ cand(m) \notin registry
                      /\ \A q \in 1..(m - 1) : cand(q) \in registry
         IN  cand(n)

\* C4: a generated id is the first candidate base, base+sep+"1", base+sep+"2",
\* ... that is not in the registry, the registry holding every id generated
\* earlier in the run (each result is inserted into it).
C4_FirstUnusedCandidate ==
    \A k \in 1..Len(headings) :
        Generated(k) =>
            headings[k].id =
                FirstUnused(BaseId(Sanitise(headings[k].text), idFormat),
                            SpaceReplacement(idFormat), RegistryBefore(k))

\* C5: a heading with a non-empty id keeps exactly that id, also when another
\* element carries the same id, and the step that processes it leaves the ids
\* of the document as they are.
C5_Passthrough ==
    [][\A k \in 1..Len(headings) :
           existingId[k] # << >> =>
               /\ headings'[k].id = existingId[k]
               /\ (pc = "ids" /\ i = k)
                      => DocIds(headings', otherIds') = DocIds(headings, otherIds)]_vars

\* A heading kept an id that another element of the document carries too.
C5_Witness ==
    \E k \in 1..Len(headings) :
        /\ existingId[k] # << >>
        /\ IdAssigned(k)
        /\ headings[k].id = existingId[k]
        /\ \/ existingId[k] \in otherIds
           \/ \E j \in 1..Len(headings) : j # k /\ headings[j].id = existingId[k]

\* C6: a generated id never equals an id that was in the document before the
\* run, whether its element comes before or after the heading.
C6_NoReuseOfPreExisting ==
    \A k \in 1..Len(headings) : Generated(k) => headings[k].id \notin PreExistingIds

\* The base of a heading is the id of a later heading, and the generated id
\* carries the suffix 1.
C6_Witness ==
    /\ pc = "done"
    /\ \E j, k \in 1..Len(headings) :
          /\ j < k
          /\ existingId[j] = << >>
          /\ existingId[k] # << >>
          /\ BaseId(Sanitise(headings[j].text), idFormat) = existingId[k]
          /\ headings[j].id = existingId[k] \o SpaceReplacement(idFormat) \o <<"1">>

\* ----------------------------------------------------- claims on the outline
\* The .each() callback has run for heading k.
ItemAdded(k) == (pc = "outline" /\ k < i) \/ pc = "done"

LevelSeq == [k \in 1..Len(headings) |-> headings[k].level]

\* The list the item of heading k was appended to.
ListOf(k) ==
    CHOOSE l \in 1..Len(lists) :
        \E p \in 1..Len(lists[l].items) : lists[l].items[p] = k

\* Number of nested lists between list l and the root list, l included.
RECURSIVE Depth(_)
Depth(l) == IF l = 1 THEN 0 ELSE 1 + Depth(ListOf(lists[l].parent))

\* C2: the stack is never empty and its bottom entry is always the root list,
\* however large currentLevel - level is on a same-or-ascending step.
C2_StackRooted == Len(stack) >= 1 /\ stack[Len(stack)] = 1

\* The heading processed last ascended by more levels than there were nested
\* lists to leave, and the stack is down to the root.
C2_Witness ==
    /\ pc = "outline"
    /\ i > 2
    /\ Len(lists) >= 2
    /\ headings[i - 2].level - headings[i - 1].level > Len(lists) - 1
    /\ stack = <<1>>

\* C7, the step: a descending step pushes exactly one new list, a child of the
\* last item of the top list, when the top list has an item, and pushes
\* nothing when it has none; the item goes to the list on top afterwards.
C7_DescendStep ==
    (pc = "outline" /\ i <= Len(headings) /\ headings[i].level > currentLevel) =>
        LET top == stack[1]
            new == Len(lists) + 1
        IN  IF lists[top].items # << >>
            THEN /\ stack' = <<new>> \o stack
                 /\ Len(lists') = new
                 /\ lists'[new] = [parent |-> lists[top].items[Len(lists[top].items)],
                                   items |-> <<i>>]
                 /\ \A l \in 1..Len(lists) : lists'[l] = lists[l]
            ELSE /\ stack' = stack
                 /\ lists' = [lists EXCEPT ![top].items = <<i>>]

\* C7, the tree: no nested list is empty, and levels [0,2,2] give root[H1[H2,H3]].
C7_Tree ==
    /\ \A l \in 2..Len(lists) : lists[l].items # << >>
    /\ (pc = "done" /\ LevelSeq = <<0, 2, 2>>)
           => lists = <<[parent |-> 0, items |-> <<1>>],
                        [parent |-> 1, items |-> <<2, 3>>]>>

\* C7: a descending step pushes exactly one nested list under the last item of
\* the top list when that list has an item and none otherwise, whatever
\* level - currentLevel is; the stack grows by at most 1 per heading and every
\* nested list of the tree has an item.
C7_Descending ==
    /\ []C7_Tree
    /\ [][C7_DescendStep /\ Len(stack') <= Len(stack) + 1]_vars

\* Levels [2,0,2]: the first heading skips two levels and opens no list, the
\* third one jumps two levels and opens one list under the second item.
C7_Witness ==
    /\ pc = "done"
    /\ LevelSeq = <<2, 0, 2>>
    /\ lists = <<[parent |-> 0, items |-> <<1, 2>>], [parent |-> 2, items |-> <<3>>]>>

\* C8: when a heading of level 0 has been processed the stack is the root list
\* alone, and every item of a level-0 heading is an item of the root list.
C8_LevelZeroAtRoot ==
    /\ (ItemAdded(1) /\ i > 1 /\ headings[i - 1].level = 0) => stack = <<1>>
    /\ \A k \in 1..Len(headings) :
           (ItemAdded(k) /\ headings[k].level = 0)
               => \E p \in 1..Len(lists[1].items) : lists[1].items[p] = k

\* Levels [0,1,2,0]: the fourth item is a sibling of the first.
C8_Witness ==
    /\ pc = "done"
    /\ LevelSeq = <<0, 1, 2, 0>>
    /\ lists[1].items = <<1, 4>>
    /\ stack = <<1>>

\* C9: two headings of the same level L with only deeper headings between
\* them are siblings: their items are in the same list.
C9_SameLevelSiblings ==
    \A j, k \in 1..Len(headings) :
        (/\ j < k
         /\ ItemAdded(k)
         /\ headings[j].level = headings[k].level
         /\ \A m \in (j + 1)..(k - 1) : headings[m].level > headings[j].level)
            => ListOf(j) = ListOf(k)

\* The levels strictly shallower than that of heading k among the headings before it.
ShallowerBefore(k) ==
    {headings[j].level : j \in {m \in 1..(k - 1) : headings[m].level < headings[k].level}}

\* C10: no list is opened for a level that never appeared: the depth of every
\* item is at most the number of distinct shallower levels among the headings
\* before it, hence at most its level, and stack height - 1 <= currentLevel.
C10_NoListForUnseenLevel ==
    /\ Len(stack) - 1 <= currentLevel
    /\ \A k \in 1..Len(headings) :
           ItemAdded(k) =>
               /\ Depth(ListOf(k)) <= Cardinality(ShallowerBefore(k))
               /\ Depth(ListOf(k)) <= headings[k].level

\* A heading that skipped a level sits at a depth below its level.
C10_Witness ==
    /\ pc = "done"
    /\ \E k \in 1..Len(headings) :
          /\ headings[k].level >= 2
          /\ Depth(ListOf(k)) = 1
          /\ Cardinality(ShallowerBefore(k)) = 1

\* Number of headings the .each() callback has run for.
NumAdded == IF pc = "outline" THEN i - 1 ELSE IF pc = "done" THEN Len(headings) ELSE 0

\* The nested lists appended to item k, in the order they were appended.
RECURSIVE ChildLists(_, _)
ChildLists(k, l) ==
    IF l > Len(lists) THEN << >>
    ELSE (IF lists[l].parent = k THEN <<l>> ELSE << >>) \o ChildLists(k, l + 1)

\* The items of the tree in pre-order: an item, then the items of its lists.
RECURSIVE WalkItems(_)
RECURSIVE WalkLists(_)
WalkItems(items) ==
    IF items = << >> THEN << >>
    ELSE <<Head(items)>> \o WalkLists(ChildLists(Head(items), 2)) \o WalkItems(Tail(items))

WalkLists(ls) ==
    IF ls = << >> THEN << >>
    ELSE WalkItems(lists[Head(ls)].items) \o WalkLists(Tail(ls))

RECURSIVE CountItems(_)
CountItems(l) == IF l = 0 THEN 0 ELSE Len(lists[l].items) + CountItems(l - 1)

\* C11: every sequence of levels is processed without failure, each heading
\* processed so far has exactly one item, and the pre-order walk of the tree
\* lists the headings in document order.
C11_TotalAndOrdered ==
    /\ pc # "error"
    /\ CountItems(Len(lists)) = NumAdded
    /\ WalkItems(lists[1].items) = [k \in 1..NumAdded |-> k]

\* An out-of-order sequence with skipped and repeated levels, fully processed.
C11_Witness ==
    /\ pc = "done"
    /\ LevelSeq = <<2, 0, 3, 1, 1>>
    /\ WalkItems(lists[1].items) = <<1, 2, 3, 4, 5>>
    /\ Len(lists) = 2

\* ------------------------------------------------------ claims on the formats
\* Underscore: every space becomes "_", the other characters stay as they are.
ExpectedUnderscore(t) == [p \in 1..Len(t) |-> IF t[p] = " " THEN "_" ELSE t[p]]

\* Kebab: every space becomes "-", the other characters are lower-cased.
ExpectedKebab(t) ==
    [p \in 1..Len(t) |-> IF t[p] = " " THEN "-" ELSE toLowerCaseChar(t[p])]

\* Camel: the spaces go; a character right after a space (the first of a later
\* word) is upper-cased, every other character is lower-cased.
RECURSIVE ExpectedCamelFrom(_, _)
ExpectedCamelFrom(t, p) ==
    IF p > Len(t) THEN << >>
    ELSE (IF t[p] = " " THEN << >>
          ELSE IF p > 1 /\ t[p - 1] = " " THEN <<toUpperCaseChar(t[p])>>
          ELSE <<toLowerCaseChar(t[p])>>) \o ExpectedCamelFrom(t, p + 1)

ExpectedBase(t, format) ==
    IF format = "kebab-case" THEN ExpectedKebab(t)
    ELSE IF format = "camelCase" THEN ExpectedCamelFrom(t, 1)
    ELSE ExpectedUnderscore(t)

\* id is base, or base followed by the separator and a number.
HasBase(id, base, sep) ==
    /\ Len(id) >= Len(base)
    /\ SubSeq(id, 1, Len(base)) = base
    /\ \/ Len(id) = Len(base)
       \/ /\ Len(id) > Len(base) + Len(sep)
          /\ SubSeq(id, Len(base) + 1, Len(base) + Len(sep)) = sep
          /\ \A p \in (Len(base) + Len(sep) + 1)..Len(id) : id[p] \in DigitChars

TwoWords == <<"A", "b", " ", "b", "A">>

\* C12: the base of a generated id follows the format: Underscore puts "_" for
\* each space and keeps the case, Kebab puts "-" and lower-cases, Camel
\* lower-cases the first word, capitalises later words and joins them; any
\* other idFormat value behaves as Underscore ("Ab bA" gives "Ab_bA", "ab-ba",
\* "abBa" when nothing collides).
C12_BaseFollowsFormat ==
    \A k \in 1..Len(headings) :
        Generated(k) =>
            /\ HasBase(headings[k].id,
                       ExpectedBase(Sanitise(headings[k].text), idFormat),
                       IF idFormat = "kebab-case" THEN <<"-">>
                       ELSE IF idFormat = "camelCase" THEN << >> ELSE <<"_">>)
            /\ (k = 1 /\ otherIds = {} /\ headings[k].text = TwoWords) =>
                   headings[k].id =
                       CASE idFormat = "kebab-case" -> <<"a", "b", "-", "b", "a">>
                         [] idFormat = "camelCase" -> <<"a", "b", "B", "a">>
                         [] OTHER -> <<"A", "b", "_", "b", "A">>

\* The two-word text under camelCase and under an unknown format.
C12_Witness ==
    /\ pc = "done"
    /\ Len(headings) = 2
    /\ headings[1].text = TwoWords
    /\ headings[2].text = TwoWords
    /\ \/ /\ idFormat = "camelCase"
          /\ headings[1].id = <<"a", "b", "B", "a">>
          /\ headings[2].id = <<"a", "b", "B", "a", "1">>
       \/ /\ idFormat = "snake_case"
          /\ headings[1].id = <<"A", "b", "_", "b", "A">>
          /\ headings[2].id = <<"A", "b", "_", "b", "A", "_", "1">>

\* ----------------------------------------------------- claims on the options
\* The value of option key by precedence, a data attribute counting as
\* supplied when dataSupplied holds of its value.
ByPrecedence(key, dataKey, dataSupplied(_)) ==
    IF options[key] # Undefined THEN options[key]
    ELSE IF dataSupplied(data[dataKey]) THEN data[dataKey]
    ELSE Defaults[key]

Present(v) == v # Undefined

\* C13 as stated: each of content, headings and idFormat is the call-time
\* option if supplied, otherwise the data attribute if supplied, otherwise
\* the default.
C13_Precedence ==
    /\ thisOptions.content = ByPrecedence("content", "toc", Present)
    /\ thisOptions.headings = ByPrecedence("headings", "tocHeadings", Present)
    /\ thisOptions.idFormat = ByPrecedence("idFormat", "idFormat", Present)

\* C13 as amended: each of content, headings and idFormat is the call-time
\* option if supplied, otherwise the data attribute if its value is truthy
\* (not empty, not 0), otherwise the default "body", "h1,h2,h3", Underscore.
C13_PrecedenceOfTruthyData ==
    /\ thisOptions.content = ByPrecedence("content", "toc", Truthy)
    /\ thisOptions.headings = ByPrecedence("headings", "tocHeadings", Truthy)
    /\ thisOptions.idFormat = ByPrecedence("idFormat", "idFormat", Truthy)
    /\ idFormat = thisOptions.idFormat[2]

\* A run in which the three sources are all in play: the call-time idFormat
\* wins over the data attribute, the data attribute gives content, an empty
\* data attribute leaves headings at the default.
C13_Witness ==
    /\ pc = "done"
    /\ Len(headings) = 1
    /\ options = [content |-> Undefined, headings |-> Undefined, idFormat |-> Str("camelCase")]
    /\ data = [toc |-> Str("#b"), tocHeadings |-> Str(""), idFormat |-> Str("kebab-case")]
    /\ thisOptions = [content |-> Str("#b"), headings |-> Str("h1,h2,h3"),
                      idFormat |-> Str("camelCase")]
    /\ headings[1].id = <<"a", "B">>

\* ------------------------------------------------ claims on later invocations
\* C14: a second invocation over the same document leaves the id of every
\* heading exactly as the first invocation left it.
C14_IdsRespected ==
    invocation = "second" =>
        \A k \in 1..Len(headings) : headings[k].id = existingId[k]

\* ---------------------------------------------------- claims on valid ids
\* C16: every generated id is a valid id: at least one character long and
\* made of letters, digits, hyphens and underscores only.
C16_ValidId ==
    \A k \in 1..Len(headings) :
        Generated(k) =>
            /\ Len(headings[k].id) >= 1
            /\ \A p \in 1..Len(headings[k].id) : headings[k].id[p] \in WordChars \cup {"-"}

\* ------------------------------------------------- more claims on the outline
\* C17: every item nested under another item has a level strictly greater
\* than the level of its parent item.
C17_LevelsIncreaseDownwards ==
    \A l \in 2..Len(lists) :
        \A p \in 1..Len(lists[l].items) :
            headings[lists[l].items[p]].level > headings[lists[l].parent].level

\* After a step down that skipped a level, the ascent by one level leaves
\* the item of level 2 next to the item of level 1, under the item of level 0.
C17_Witness ==
    /\ pc = "done"
    /\ LevelSeq = <<0, 1, 3, 2>>
    /\ lists = <<[parent |-> 0, items |-> <<1>>],
                 [parent |-> 1, items |-> <<2, 4>>],
                 [parent |-> 2, items |-> <<3>>]>>

\* The first k headings skip no level: the first has level 0 and a descending
\* step goes one level down.
NoSkip(k) ==
    /\ k >= 1 => headings[1].level = 0
    /\ \A j \in 2..k :
           headings[j].level > headings[j - 1].level
               => headings[j].level = headings[j - 1].level + 1

\* C18: while the headings processed so far skip no level, the depth of every
\* item equals its level and stack height - 1 equals currentLevel.
C18_DepthIsLevel ==
    (pc \in {"outline", "done"} /\ NoSkip(NumAdded)) =>
        /\ Len(stack) - 1 = currentLevel
        /\ \A k \in 1..NumAdded : Depth(ListOf(k)) = headings[k].level

\* Down to level 2, up to level 0 and down again without a skip.
C18_Witness ==
    /\ pc = "done"
    /\ LevelSeq = <<0, 1, 2, 0, 1>>
    /\ NoSkip(NumAdded)
    /\ Len(stack) = 2
    /\ Depth(ListOf(3)) = 2
    /\ Depth(ListOf(5)) = 1

====
